---------------------------- MODULE Spec2Model ----------------------------
(***************************************************************************)
(* A model of xpng.py (class Xpng): the staged decoding of a PNG byte      *)
(* buffer (signature, chunk framing, IHDR properties, zlib payload,        *)
(* scanline unfiltering), the pixel queries and the re-serialisation.      *)
(*                                                                         *)
(* Bytes are integers 0..255, a buffer is a sequence of bytes.  A Python   *)
(* offset o is the TLA+ index o + 1.  TLC's integers are 32-bit signed, so *)
(* a 32-bit checksum is kept as its four big-endian bytes and the inputs   *)
(* hold only length, width and height fields below 2^31.                   *)
(***************************************************************************)
EXTENDS Integers, Sequences, FiniteSets, TLC

VARIABLES
    content,            \* self.content: the input buffer
    valid,              \* self.valid
    chunks,             \* self.chunks (None and [] are both <<>>)
    width, height, colorDepth, colorType,
    compressionMethod, filterMethod, interlaceMethod,
    filters_used,       \* self.filters_used
    pixels,             \* self.pixels: rows of pixels of samples
    zlevel,             \* self.zlevel
    pc,                 \* position inside __init__ / _check_validity
    offset,             \* _parse_chunks: local offset
    filtered,           \* _unfilter: local filtered (the inflated buffer)
    y,                  \* _unfilter: loop variable y
    prior,              \* _unfilter: local prior
    line,               \* _unfilter: local line (the last one read)
    err,                \* the exception caught at line 65 and the stage that
                        \* raised it (NoErr if none)
    gen,                \* 1: decoder of the input, 2: decoder of its getBlob()
    first,              \* pixels and filters_used of the first decoder
    qcolor, qresult,    \* the last hasColor(color) call and its outcome
    fargs, fresult      \* arguments / result of a directly applied function

vars == <<content, valid, chunks, width, height, colorDepth, colorType,
          compressionMethod, filterMethod, interlaceMethod, filters_used,
          pixels, zlevel, pc, offset, filtered, y, prior, line, err, gen,
          first, qcolor, qresult, fargs, fresult>>

(***************************************************************************)
(* Bounds of the model.                                                    *)
(***************************************************************************)
MaxWidth == 2
MaxHeight == 2
MaxChunks == 3
MaxCut == 12
MaxShort == 1
MaxRowBytes == 4
MaxByte == 6

(***************************************************************************)
(* Python sequence primitives.                                             *)
(***************************************************************************)
Min(a, b) == IF a <= b THEN a ELSE b
Max(a, b) == IF a >= b THEN a ELSE b
\* s[lo:hi] for 0 <= lo: clamped, never raises
Slice(s, lo, hi) == SubSeq(s, lo + 1, Min(hi, Len(s)))
\* itertools.chain over the rows: the concatenation of a sequence of sequences
RECURSIVE Chain(_)
Chain(ss) == IF ss = <<>> THEN <<>> ELSE Head(ss) \o Chain(Tail(ss))
\* big-endian "!I" / "!L": value of four bytes, and the bytes of a value
U32(b) == ((b[1] * 256 + b[2]) * 256 + b[3]) * 256 + b[4]
PackU32(n) == << n \div 16777216, (n \div 65536) % 256, (n \div 256) % 256, n % 256 >>

(***************************************************************************)
(* binascii.crc32 and zlib, the library functions the class calls.         *)
(***************************************************************************)
\* exclusive or, bit by bit, and tabulated for two bytes
RECURSIVE XorBits(_, _)
XorBits(a, b) ==
    IF a = 0 THEN b
    ELSE IF b = 0 THEN a
    ELSE ((a + b) % 2) + 2 * XorBits(a \div 2, b \div 2)
RECURSIVE XorRow(_, _, _)
XorRow(a, from, to) ==
    IF from = to THEN << XorBits(a, from) >>
    ELSE XorRow(a, from, (from + to) \div 2) \o XorRow(a, ((from + to) \div 2) + 1, to)
RECURSIVE XorRows(_, _)
XorRows(from, to) ==
    IF from = to THEN << XorRow(from, 0, 255) >>
    ELSE XorRows(from, (from + to) \div 2) \o XorRows(((from + to) \div 2) + 1, to)
XorTable == XorRows(0, 255)
Xor8(a, b) == XorTable[a + 1][b + 1]

\* n shifts of the register <<hi, lo>> (two 16-bit halves) through the
\* polynomial EDB88320
Xor16(a, b) == Xor8(a \div 256, b \div 256) * 256 + Xor8(a % 256, b % 256)
RECURSIVE CrcBits(_, _, _)
CrcBits(hi, lo, n) ==
    IF n = 0 THEN << hi \div 256, hi % 256, lo \div 256, lo % 256 >>
    ELSE LET h == hi \div 2
             l == (lo \div 2) + (hi % 2) * 32768
         IN  IF lo % 2 = 1
             THEN CrcBits(Xor16(h, 60856), Xor16(l, 33568), n - 1)
             ELSE CrcBits(h, l, n - 1)

\* the byte table of the CRC, each entry four bytes, high byte first
RECURSIVE CrcTableOf(_, _)
CrcTableOf(from, to) ==
    IF from = to THEN << CrcBits(0, from, 8) >>
    ELSE CrcTableOf(from, (from + to) \div 2) \o CrcTableOf(((from + to) \div 2) + 1, to)
CrcTable == CrcTableOf(0, 255)

\* the register (four bytes, high byte first) after bytes i..j of s.  The
\* bytes are taken in blocks of 16 and the (never true) test on reg makes
\* each step be computed before the next one is entered, which keeps the
\* evaluation shallow
RECURSIVE CrcBlock(_, _, _, _)
CrcBlock(reg, s, i, j) ==
    IF i > j \/ reg[1] < 0 THEN reg
    ELSE LET t == CrcTable[Xor8(reg[4], s[i]) + 1]
         IN  CrcBlock(<< t[1], Xor8(reg[1], t[2]), Xor8(reg[2], t[3]),
                         Xor8(reg[3], t[4]) >>, s, i + 1, j)
RECURSIVE CrcBytes(_, _, _)
CrcBytes(reg, s, i) ==
    IF i > Len(s) \/ reg[1] < 0 THEN reg
    ELSE CrcBytes(CrcBlock(reg, s, i, Min(i + 15, Len(s))), s, i + 16)

\* binascii.crc32(s) & 0xffffffff, as four big-endian bytes
crc32(s) ==
    LET r == CrcBytes(<<255, 255, 255, 255>>, s, 1)
    IN  << 255 - r[1], 255 - r[2], 255 - r[3], 255 - r[4] >>

\* the sums <<a, b>> of Adler-32 after bytes i..j; blocks of 16 as above
RECURSIVE AdlerBlock(_, _, _, _)
AdlerBlock(ab, s, i, j) ==
    IF i > j \/ ab[1] < 0 THEN ab
    ELSE LET a2 == (ab[1] + s[i]) % 65521
         IN  AdlerBlock(<< a2, (ab[2] + a2) % 65521 >>, s, i + 1, j)
RECURSIVE AdlerSums(_, _, _)
AdlerSums(ab, s, i) ==
    IF i > Len(s) \/ ab[1] < 0 THEN ab
    ELSE AdlerSums(AdlerBlock(ab, s, i, Min(i + 15, Len(s))), s, i + 16)

adler32(s) ==
    LET r == AdlerSums(<<1, 0>>, s, 1)
    IN  << r[2] \div 256, r[2] % 256, r[1] \div 256, r[1] % 256 >>

\* zlib.compress(data): a zlib stream holding data.  The stream is the
\* header 78 9C, one final stored block (01, LEN, NLEN little-endian, the
\* bytes) and the Adler-32 of the data.
zlib_compress(data) ==
    LET n == Len(data)
    IN  << 120, 156, 1, n % 256, n \div 256, 255 - (n % 256), 255 - (n \div 256) >>
        \o data \o adler32(data)

\* zlib.decompress(s) for Len(s) >= 2: the data, or <<-1>> for zlib.error.
\* Streams other than stored-block streams are not among the inputs.
ZlibError == << -1 >>
zlib_decompress(s) ==
    IF \/ s[1] % 16 # 8
       \/ s[1] \div 16 > 7
       \/ (s[1] * 256 + s[2]) % 31 # 0
       \/ (s[2] \div 32) % 2 # 0
       \/ Len(s) < 11
    THEN ZlibError
    ELSE LET n == s[4] + 256 * s[5]
             data == SubSeq(s, 8, 7 + n)
         IN  IF \/ s[3] # 1
                \/ s[6] + 256 * s[7] # 65535 - n
                \/ Len(s) < 11 + n
                \/ SubSeq(s, 8 + n, 11 + n) # adler32(data)
             THEN ZlibError
             ELSE data

(***************************************************************************)
(* Chunks.                                                                 *)
(***************************************************************************)
IHDR == << 73, 72, 68, 82 >>
PLTE == << 80, 76, 84, 69 >>
IDAT == << 73, 68, 65, 84 >>
IEND == << 73, 69, 78, 68 >>
tEXt == << 116, 69, 88, 116 >>

\* Xpng.Chunk(size, name, content, checksum, offset)
Chunk(size, name, cont, checksum, off) ==
    [size |-> size, name |-> name, content |-> cont, checksum |-> checksum,
     offset |-> off]
NoChunk == [size |-> -1, name |-> <<>>, content |-> <<>>, checksum |-> <<>>,
            offset |-> -1]

\* struct.unpack_from(fmt, data, start) raises struct.error unless nbytes
\* bytes are available at start
CanUnpack(data, start, nbytes) == Len(data) - start >= nbytes

\* _parse_chunk(data, offset): the chunk, or NoChunk when an unpack raises
_parse_chunk(data, off) ==
    IF ~CanUnpack(data, off, 8) THEN NoChunk
    ELSE LET size == U32(SubSeq(data, off + 1, off + 4))
             name == SubSeq(data, off + 5, off + 8)
             start == off + 8
             cont == Slice(data, start, start + size)
         IN  IF ~CanUnpack(data, start + size, 4) THEN NoChunk
             ELSE Chunk(size, name, cont,
                        SubSeq(data, start + size + 1, start + size + 4), off)

_chunk_checksum(name, cont) == crc32(name \o cont)

\* _get_chunk(name, index): the index-th chunk with that name, or NoChunk
_get_chunk(cs, name, index) ==
    LET hits == SelectSeq(cs, LAMBDA c : c.name = name)
    IN  IF Len(hits) > index THEN hits[index + 1] ELSE NoChunk

_generate_chunk_blob(chunk) ==
    PackU32(chunk.size) \o chunk.name \o chunk.content \o chunk.checksum

generateChunk(name, data) ==
    Chunk(Len(data), name, data, _chunk_checksum(name, data), 0)

(***************************************************************************)
(* Header properties and pixel size.                                       *)
(***************************************************************************)
\* _properties raises when there is no IHDR chunk (ihdr is None) or when
\* struct.unpack("!IIBBBBB", ihdr.content) is not given exactly 13 bytes
_properties_raises(cs) ==
    LET ihdr == _get_chunk(cs, IHDR, 0)
    IN  IF ihdr = NoChunk THEN "AttributeError"
        ELSE IF Len(ihdr.content) # 13 THEN "struct.error"
        ELSE "none"

\* the seven fields _properties unpacks from the first IHDR chunk
_properties(cs) ==
    LET c == _get_chunk(cs, IHDR, 0).content
    IN  [width |-> U32(SubSeq(c, 1, 4)), height |-> U32(SubSeq(c, 5, 8)),
         colorDepth |-> c[9], colorType |-> c[10], compressionMethod |-> c[11],
         filterMethod |-> c[12], interlaceMethod |-> c[13]]

\* size = [1, 0, 3, 1, 2, 0, 4]
size == << 1, 0, 3, 1, 2, 0, 4 >>

\* _pixel_size raises IndexError on size[colorType] for colorType > 6
_pixel_size_raises(ct) == ct # 3 /\ ct > 6

\* _pixel_size() in eighths of a byte: 1 byte when indexed, otherwise
\* (colorDepth / 8.0) * size[colorType], which is exact in floating point
_pixel_size8(depth, ct) ==
    IF ct = 3 THEN 8 ELSE depth * size[ct + 1]

\* a line size with the product rounded down instead
LineSizeFloor(ps8, w) == ((ps8 * w) \div 8) + 1

\* int(round(ps * self.width)) + 1: Python 2 rounds halves away from zero
line_size(ps8, w) == ((ps8 * w + 4) \div 8) + 1

\* int(max(1, self._pixel_size()))
filter_ps(ps8) == Max(1, ps8 \div 8)

(***************************************************************************)
(* _decompress.                                                            *)
(***************************************************************************)
\* the concatenated contents of the IDAT chunks, in order
RECURSIVE IdatConcat(_, _)
IdatConcat(cs, index) ==
    LET chunk == _get_chunk(cs, IDAT, index)
    IN  IF chunk = NoChunk THEN <<>>
        ELSE chunk.content \o IdatConcat(cs, index + 1)

\* what _decompress raises: IndexError on compressed[1], or zlib.error
_decompress_raises(cs) ==
    LET compressed == IdatConcat(cs, 0)
    IN  IF Len(compressed) < 2 THEN "IndexError"
        ELSE IF zlib_decompress(compressed) = ZlibError THEN "zlib.error"
        ELSE "none"

\* ord(compressed[1]) >> 6, assigned before zlib.decompress is called
_decompress_zlevel(cs) == IdatConcat(cs, 0)[2] \div 64

_decompress(cs) == zlib_decompress(IdatConcat(cs, 0))

(***************************************************************************)
(* Scanline filters.                                                       *)
(***************************************************************************)
Abs(n) == IF n < 0 THEN -n ELSE n

\* a predictor whose second test is strict: a tie of pb and pc goes to c
PaethStrictTie(a, b, c) ==
    LET p == a + b - c
        pa == Abs(p - a)
        pb == Abs(p - b)
        pc_ == Abs(p - c)
    IN  IF pa <= pb /\ pa <= pc_ THEN a
        ELSE IF pb < pc_ THEN b
        ELSE c

_paeth(a, b, c) ==
    LET p == a + b - c
        pa == Abs(p - a)
        pb == Abs(p - b)
        pc_ == Abs(p - c)
    IN  IF pa <= pb /\ pa <= pc_ THEN a
        ELSE IF pb <= pc_ THEN b
        ELSE c

\* zip(...) stops at the shortest argument
ZipLen2(a, b) == Min(Len(a), Len(b))
ZipLen3(a, b, c) == Min(Len(a), Min(Len(b), Len(c)))

_type0(a, b, c, x) == x

_type1(a, b, c, x) ==
    [k \in 1..ZipLen2(a, x) |-> (a[k] + x[k]) % 256]

_type2(a, b, c, x) ==
    [k \in 1..ZipLen2(b, x) |-> (b[k] + x[k]) % 256]

\* an average filter that rounds the mean up instead of down
Type3RoundUp(a, b, c, x) ==
    [k \in 1..ZipLen3(a, b, x) |-> (((a[k] + b[k] + 1) \div 2) + x[k]) % 256]

_type3(a, b, c, x) ==
    [k \in 1..ZipLen3(a, b, x) |-> (((a[k] + b[k]) \div 2) + x[k]) % 256]

_type4(a, b, c, x) ==
    [k \in 1..Min(ZipLen3(a, b, c), Len(x)) |->
        (_paeth(a[k], b[k], c[k]) + x[k]) % 256]

\* filters[type] followed by the call
ApplyFilter(type, a, b, c, x) ==
    CASE type = 0 -> _type0(a, b, c, x)
      [] type = 1 -> _type1(a, b, c, x)
      [] type = 2 -> _type2(a, b, c, x)
      [] type = 3 -> _type3(a, b, c, x)
      [] type = 4 -> _type4(a, b, c, x)

\* prior == None
NoPrior == << << -1 >> >>
ZeroPixel(ps) == [k \in 1..ps |-> 0]

\* the loop of _unfilter_line from pixel i on (0-based), given a and c
RECURSIVE UnfilterPixels(_, _, _, _, _, _, _)
UnfilterPixels(type, data, pr, ps, i, a, c) ==
    IF i >= Len(data) \div ps THEN <<>>
    ELSE LET x == Slice(data, i * ps, (i + 1) * ps)
             b == pr[i + 1]
             recon == ApplyFilter(type, a, b, c, x)
         IN  <<recon>> \o UnfilterPixels(type, data, pr, ps, i + 1, recon, b)

\* the prior row _unfilter_line works with
PriorOrZero(pr, data, ps) ==
    IF pr = NoPrior THEN [i \in 1..(Len(data) \div ps) |-> ZeroPixel(ps)] ELSE pr

\* the value standing for "raised IndexError, no row returned"
Raised == << << -2 >> >>

\* an _unfilter_line that falls back to type 0 for a tag above 4
UnfilterLineLenient(ln, pr, ps8) ==
    LET data == Tail(ln)
        ps == filter_ps(ps8)
        type == IF ln[1] > 4 THEN 0 ELSE ln[1]
    IN  IF \/ ln = <<>>
           \/ Len(data) \div ps > Len(PriorOrZero(pr, data, ps))
        THEN Raised
        ELSE UnfilterPixels(type, data, PriorOrZero(pr, data, ps), ps, 0,
                            ZeroPixel(ps), ZeroPixel(ps))

\* _unfilter_line(line, prior): the row of pixels, or Raised when it raises
\* IndexError: on line[0] of an empty line, on filters[type] for type > 4,
\* on prior[i] past the end of prior
_unfilter_line(ln, pr, ps8) ==
    LET data == Tail(ln)
        ps == filter_ps(ps8)
    IN  IF \/ ln = <<>>
           \/ ln[1] > 4
           \/ Len(data) \div ps > Len(PriorOrZero(pr, data, ps))
        THEN Raised
        ELSE UnfilterPixels(ln[1], data, PriorOrZero(pr, data, ps), ps, 0,
                            ZeroPixel(ps), ZeroPixel(ps))

(***************************************************************************)
(* Public methods.                                                         *)
(***************************************************************************)
\* getPaletteColors raises when there is no PLTE chunk (plte is None) and
\* when plte.size is not a multiple of 3 (plteBytes[x + 2] past the end)
getPaletteColors_raises(cs) ==
    LET plte == _get_chunk(cs, PLTE, 0)
    IN  plte = NoChunk \/ plte.size % 3 # 0

getPaletteColors(cs) ==
    LET plte == _get_chunk(cs, PLTE, 0)
    IN  [i \in 1..(plte.size \div 3) |->
            << plte.content[3 * i - 2], plte.content[3 * i - 1], plte.content[3 * i] >>]

\* the value standing for None or for a raised exception of getPixelRgb
NoPixel == << -1 >>

\* getPixelRgb(x, y)
getPixelRgb(x, yy) ==
    IF colorDepth # 8 THEN NoPixel
    ELSE IF yy >= Len(pixels) \/ x >= Len(pixels[yy + 1]) THEN NoPixel
    ELSE LET value == pixels[yy + 1][x + 1]
         IN  CASE colorType = 2 -> value
               [] colorType = 6 -> Slice(value, 0, 3)
               [] colorType = 3 ->
                    IF getPaletteColors_raises(chunks) THEN NoPixel
                    ELSE IF value[1] >= Len(getPaletteColors(chunks)) THEN NoPixel
                    ELSE getPaletteColors(chunks)[value[1] + 1]
               [] OTHER -> NoPixel

InSeq(e, s) == \E i \in 1..Len(s) : s[i] = e

\* hasColor(color): "True", "False", "None" (no branch returns) or "raise"
hasColor(color) ==
    IF colorDepth # 8 THEN "False"
    ELSE CASE colorType = 2 ->
                IF InSeq(color, Chain(pixels)) THEN "True" ELSE "False"
           [] colorType = 6 ->
                IF \E i \in 1..Len(Chain(pixels)) : Len(Chain(pixels)[i]) < 3
                THEN "raise"
                ELSE IF InSeq(color, [i \in 1..Len(Chain(pixels)) |->
                                         SubSeq(Chain(pixels)[i], 1, 3)])
                THEN "True" ELSE "False"
           [] colorType = 3 ->
                IF getPaletteColors_raises(chunks) THEN "raise"
                ELSE IF InSeq(color, getPaletteColors(chunks))
                THEN "True" ELSE "False"
           [] OTHER -> "None"

\* a generateIdat that leaves out line 295, the tag byte of each row
GenerateIdatWithoutTag(px) ==
    LET data == Chain([i \in 1..Len(px) |-> Chain(px[i])])
    IN  _generate_chunk_blob(generateChunk(IDAT, zlib_compress(data)))

\* generateIdat(): the blob of one IDAT chunk, every row written with tag 0
generateIdat(px) ==
    LET data == Chain([i \in 1..Len(px) |-> <<0>> \o Chain(px[i])])
    IN  _generate_chunk_blob(generateChunk(IDAT, zlib_compress(data)))

Signature == << 137, 80, 78, 71, 13, 10, 26, 10 >>

\* getBlob(), for an object that has an IHDR and an IEND chunk
getBlob(cs, px) ==
    Signature
    \o _generate_chunk_blob(_get_chunk(cs, IHDR, 0))
    \o (IF _get_chunk(cs, PLTE, 0) = NoChunk THEN <<>>
        ELSE _generate_chunk_blob(_get_chunk(cs, PLTE, 0)))
    \o generateIdat(px)
    \o _generate_chunk_blob(_get_chunk(cs, IEND, 0))

(***************************************************************************)
(* The input buffers.  Files are assembled the way getBlob assembles them: *)
(* the signature, then chunks serialised by _generate_chunk_blob.          *)
(***************************************************************************)
MkChunk(name, data) == _generate_chunk_blob(generateChunk(name, data))
IhdrData(w, h, depth, ct) == PackU32(w) \o PackU32(h) \o << depth, ct, 0, 0, 0 >>
DropLast(s, k) == SubSeq(s, 1, Len(s) - Min(k, Len(s)))
ReplaceAt(s, i, b) == [s EXCEPT ![i] = b]

\* <<colorDepth, colorType, with PLTE chunk>> of the image inputs
HeaderKinds ==
    { <<4, 0, 0>>, <<16, 0, 0>>, <<20, 0, 0>>, <<8, 2, 0>>, <<8, 3, 0>>,
      <<8, 3, 1>>, <<8, 6, 0>>, <<8, 7, 0>> }
Tags == 0..5
Fills == {0}
Palette2 == << 0, 1, 2, 40, 50, 60 >>
Colors == { <<0, 1, 2>>, <<40, 50, 60>> }

\* the bytes a well-formed scanline holds after its tag for this header
RowBytes(depth, ct, w) ==
    IF _pixel_size_raises(ct) THEN w ELSE line_size(_pixel_size8(depth, ct), w) - 1
ScanLine(tag, fill, r, n) == <<tag>> \o [i \in 1..n |-> (fill + r + i - 1) % 256]
ScanLines(tags, fill, n) ==
    Chain([r \in 1..Len(tags) |-> ScanLine(tags[r], fill, r - 1, n)])

IendBlob == MkChunk(IEND, <<>>)
PlteBlob == MkChunk(PLTE, Palette2)
FilePrefix(w, h, depth, ct, pal) ==
    Signature
    \o MkChunk(IHDR, IhdrData(w, h, depth, ct))
    \o (IF pal = 1 THEN PlteBlob ELSE <<>>)

ImageFile(w, h, depth, ct, pal, scan) ==
    FilePrefix(w, h, depth, ct, pal) \o MkChunk(IDAT, zlib_compress(scan)) \o IendBlob

\* the image files of one header: every tag on every row, a fill, and up
\* to MaxShort bytes missing at the end of the scanlines
ImagesOf(w, h, k) ==
    LET prefix == FilePrefix(w, h, k[1], k[2], k[3])
        n == RowBytes(k[1], k[2], w)
    IN  { prefix
          \o MkChunk(IDAT, zlib_compress(DropLast(ScanLines(tags, fill, n), short)))
          \o IendBlob :
            tags \in [1..h -> Tags], fill \in Fills, short \in 0..MaxShort }

\* the image files up to maxw pixels wide and maxh rows high
ImageInputs(maxw, maxh) ==
    UNION { ImagesOf(w, h, k) : w \in 0..maxw, h \in 0..maxh, k \in HeaderKinds }

\* chunks of the framing inputs
GoodScan == << 0, 7 >>
BadZlib == ReplaceAt(zlib_compress(GoodScan), 2, 155)
LieChunk == PackU32(1073741824) \o tEXt \o << 1, 2, 3, 4, 5, 6 >>
FrameChunks ==
    { MkChunk(IHDR, IhdrData(1, 1, 8, 0)),
      MkChunk(IHDR, IhdrData(1, 1, 8, 0) \o <<0>>),
      MkChunk(IDAT, BadZlib),
      MkChunk(tEXt, <<>>),
      MkChunk(IEND, <<>>),
      LieChunk }
\* up to maxn chunks after the signature, up to maxcut bytes cut at the end
FrameInputs(maxn, maxcut) ==
    { DropLast(Signature \o Chain(cs), cut) :
        cut \in 0..maxcut,
        cs \in UNION { [1..n -> FrameChunks] : n \in 0..maxn } }

\* buffers with a damaged signature in front of a well-formed 1x1 image
GoodFile == ImageFile(1, 1, 8, 0, 0, GoodScan)
SignatureInputs ==
    { <<>> }
    \cup { SubSeq(Signature, 1, n) : n \in 1..8 }
    \cup { ReplaceAt(GoodFile, i, 0) : i \in 1..8 }

Inputs(maxw, maxh, maxn, maxcut) ==
    SignatureInputs \cup FrameInputs(maxn, maxcut) \cup ImageInputs(maxw, maxh)

(***************************************************************************)
(* __init__: the fields of a new object over a buffer.                     *)
(***************************************************************************)
NoErr == [stage |-> "none", type |-> "none"]
Caught(stage, type) == [stage |-> stage, type |-> type]
NoFirst == [pixels |-> <<>>, filters_used |-> {}]

Construct(buf) ==
    /\ content' = buf
    /\ valid' = 0
    /\ chunks' = <<>>
    /\ width' = 0 /\ height' = 0 /\ colorDepth' = 0 /\ colorType' = 0
    /\ compressionMethod' = 0 /\ filterMethod' = 0 /\ interlaceMethod' = 0
    /\ filters_used' = {}
    /\ pixels' = <<>>
    /\ zlevel' = 0
    /\ pc' = "start"
    /\ offset' = 0 /\ filtered' = <<>> /\ y' = 0 /\ prior' = NoPrior
    /\ line' = <<>> /\ err' = NoErr
    /\ qcolor' = <<>> /\ qresult' = "none"

Init ==
    /\ content \in Inputs(MaxWidth, MaxHeight, MaxChunks, MaxCut)
    /\ valid = 0
    /\ chunks = <<>>
    /\ width = 0 /\ height = 0 /\ colorDepth = 0 /\ colorType = 0
    /\ compressionMethod = 0 /\ filterMethod = 0 /\ interlaceMethod = 0
    /\ filters_used = {}
    /\ pixels = <<>>
    /\ zlevel = 0
    /\ pc = "start"
    /\ offset = 0 /\ filtered = <<>> /\ y = 0 /\ prior = NoPrior
    /\ line = <<>> /\ err = NoErr
    /\ gen = 1 /\ first = NoFirst
    /\ qcolor = <<>> /\ qresult = "none"
    /\ fargs = <<>> /\ fresult = <<>>

(***************************************************************************)
(* _check_validity, one action per stage and per loop iteration.           *)
(***************************************************************************)
hdr_vars == <<width, height, colorDepth, colorType, compressionMethod,
              filterMethod, interlaceMethod>>
ghost_vars == <<gen, first, qcolor, qresult, fargs, fresult>>
unf_vars == <<filtered, y, prior, line, filters_used, pixels, zlevel>>

\* lines 54-55
CheckContent ==
    /\ pc = "start"
    /\ IF content # <<>>
       THEN valid' = 1 /\ pc' = "signature"
       ELSE valid' = valid /\ pc' = "done"
    /\ UNCHANGED <<content, chunks, hdr_vars, unf_vars, offset, err, ghost_vars>>

\* content.startswith('\x89PNG')
StartsWithPng(buf) == Len(buf) >= 4 /\ SubSeq(buf, 1, 4) = << 137, 80, 78, 71 >>

\* lines 56-57, and lines 71-73 of _parse_chunks
CheckSignature ==
    /\ pc = "signature"
    /\ IF StartsWithPng(content)
       THEN valid' = 2 /\ pc' = "parse" /\ offset' = 8
       ELSE valid' = valid /\ pc' = "done" /\ offset' = offset
    /\ UNCHANGED <<content, chunks, hdr_vars, unf_vars, err, ghost_vars>>

\* what the while loop of _parse_chunks does once the chunk is read
AfterChunk(chunk) == IF chunk.name = IEND THEN "properties" ELSE "parse"
\* a cursor that forgets the 4 bytes of the checksum
OffsetSkipsHeaderOnly(off, chunk) == off + chunk.size + 8
\* line 77
NextOffset(off, chunk) == off + chunk.size + 12

\* one iteration of the loop of _parse_chunks (lines 74-77); leaving the
\* loop returns to line 60
ParseChunk ==
    /\ pc = "parse"
    /\ LET chunk == _parse_chunk(content, offset)
       IN  IF chunk = NoChunk
           THEN /\ err' = Caught("parse", "struct.error")
                /\ pc' = "done"
                /\ UNCHANGED <<chunks, offset, valid>>
           ELSE /\ chunks' = Append(chunks, chunk)
                /\ offset' = NextOffset(offset, chunk)
                /\ pc' = AfterChunk(chunk)
                /\ valid' = IF pc' = "properties" THEN 3 ELSE valid
                /\ err' = err
    /\ UNCHANGED <<content, hdr_vars, unf_vars, ghost_vars>>

\* lines 61-62 in the other order: the level is set before _properties runs
PropertiesLevelFirst ==
    /\ pc = "properties"
    /\ valid' = 4
    /\ IF _properties_raises(chunks) # "none"
       THEN /\ err' = Caught("properties", _properties_raises(chunks))
            /\ pc' = "done"
            /\ UNCHANGED hdr_vars
       ELSE LET p == _properties(chunks)
            IN  /\ width' = p.width /\ height' = p.height
                /\ colorDepth' = p.colorDepth /\ colorType' = p.colorType
                /\ compressionMethod' = p.compressionMethod
                /\ filterMethod' = p.filterMethod
                /\ interlaceMethod' = p.interlaceMethod
                /\ pc' = "unfilter"
                /\ err' = err
    /\ UNCHANGED <<content, chunks, unf_vars, offset, ghost_vars>>

\* lines 61-62
Properties ==
    /\ pc = "properties"
    /\ IF _properties_raises(chunks) # "none"
       THEN /\ err' = Caught("properties", _properties_raises(chunks))
            /\ pc' = "done"
            /\ UNCHANGED <<valid, hdr_vars>>
       ELSE LET p == _properties(chunks)
            IN  /\ width' = p.width /\ height' = p.height
                /\ colorDepth' = p.colorDepth /\ colorType' = p.colorType
                /\ compressionMethod' = p.compressionMethod
                /\ filterMethod' = p.filterMethod
                /\ interlaceMethod' = p.interlaceMethod
                /\ valid' = 4
                /\ pc' = "unfilter"
                /\ err' = err
    /\ UNCHANGED <<content, chunks, unf_vars, offset, ghost_vars>>

\* lines 235-238 of _unfilter
StartUnfilter ==
    /\ pc = "unfilter"
    /\ IF _pixel_size_raises(colorType)
       THEN /\ err' = Caught("unfilter", "IndexError") /\ pc' = "done"
            /\ UNCHANGED <<filtered, zlevel>>
       ELSE IF _decompress_raises(chunks) # "none"
       THEN /\ err' = Caught("unfilter", _decompress_raises(chunks)) /\ pc' = "done"
            /\ zlevel' = IF err'.type = "zlib.error" THEN _decompress_zlevel(chunks)
                         ELSE zlevel
            /\ UNCHANGED filtered
       ELSE /\ filtered' = _decompress(chunks)
            /\ zlevel' = _decompress_zlevel(chunks)
            /\ pc' = "rows"
            /\ err' = err
    /\ y' = 0 /\ prior' = NoPrior
    /\ UNCHANGED <<content, valid, chunks, hdr_vars, line, filters_used, pixels,
                   offset, ghost_vars>>

\* line 240
ReadLine(buf, yy, ls) == Slice(buf, yy * ls, (yy + 1) * ls)

\* one iteration of the loop of _unfilter (lines 239-243)
UnfilterRow ==
    /\ pc = "rows"
    /\ y < height
    /\ LET ps8 == _pixel_size8(colorDepth, colorType)
           ln == ReadLine(filtered, y, line_size(ps8, width))
           unfiltered == _unfilter_line(ln, prior, ps8)
       IN  /\ line' = ln
           /\ filters_used' = IF ln = <<>> THEN filters_used
                              ELSE filters_used \cup {ln[1]}
           /\ IF unfiltered = Raised
              THEN /\ err' = Caught("unfilter", "IndexError") /\ pc' = "done"
                   /\ UNCHANGED <<pixels, prior, y>>
              ELSE /\ pixels' = Append(pixels, unfiltered)
                   /\ prior' = unfiltered
                   /\ y' = y + 1
                   /\ UNCHANGED <<err, pc>>
    /\ UNCHANGED <<content, valid, chunks, hdr_vars, filtered, zlevel, offset,
                   ghost_vars>>

\* range(self.height) is exhausted: _unfilter returns, line 64
FinishUnfilter ==
    /\ pc = "rows"
    /\ y >= height
    /\ valid' = 10
    /\ pc' = "done"
    /\ UNCHANGED <<content, chunks, hdr_vars, unf_vars, offset, err, ghost_vars>>

\* a call of hasColor(color) on the constructed object
HasColor ==
    /\ pc = "done"
    /\ qresult = "none"
    /\ \E color \in Colors :
          /\ qcolor' = color
          /\ qresult' = hasColor(color)
    /\ UNCHANGED <<content, valid, chunks, hdr_vars, unf_vars, pc, offset, err,
                   gen, first, fargs, fresult>>

\* Xpng(first.getBlob()): the image is serialised and decoded again
Reload ==
    /\ pc = "done"
    /\ gen = 1
    /\ valid = 10
    /\ qresult = "none"
    /\ Construct(getBlob(chunks, pixels))
    /\ gen' = 2
    /\ first' = [pixels |-> pixels, filters_used |-> filters_used]
    /\ UNCHANGED <<fargs, fresult>>

Next ==
    \/ CheckContent
    \/ CheckSignature
    \/ ParseChunk
    \/ Properties
    \/ StartUnfilter
    \/ UnfilterRow
    \/ FinishUnfilter
    \/ HasColor
    \/ Reload

Spec == Init /\ [][Next]_vars

(***************************************************************************)
(* C1: validity levels.                                                    *)
(***************************************************************************)
Levels == {0, 1, 2, 3, 4, 10}

LastChunkIsIend == chunks # <<>> /\ chunks[Len(chunks)].name = IEND

\* the level a finished construction holds, by the stage that raised
C1_FinalLevel ==
    /\ valid \in Levels
    /\ pc = "done" =>
          /\ err.stage = "parse" => valid = 2
          /\ err.stage = "properties" => valid = 3
          /\ err.stage = "unfilter" => valid = 4
          /\ err = NoErr => valid \in {0, 1, 10}
          /\ valid = 10 => /\ err = NoErr
                           /\ LastChunkIsIend
                           /\ _properties_raises(chunks) = "none"
                           /\ _decompress_raises(chunks) = "none"
                           /\ y >= height
    /\ pc # "done" => err = NoErr

StageNo(p) ==
    CASE p = "start" -> 0 [] p = "signature" -> 1 [] p = "parse" -> 2
      [] p = "properties" -> 3 [] p = "unfilter" -> 4 [] p = "rows" -> 5
      [] p = "done" -> 6

\* a step of the constructor moves to a later stage, or consumes input in
\* the chunk loop, or a row in the row loop: no run of it is endless
C1_Progress ==
    pc # "done" =>
        \/ StageNo(pc') > StageNo(pc)
        \/ pc = "parse" /\ pc' = "parse" /\ offset' > offset
              /\ offset' <= Len(content)
        \/ pc = "rows" /\ pc' = "rows" /\ y' = y + 1 /\ y' <= height

\* C1: while a decoder is constructed the validity level is one of 0, 1, 2,
\* 3, 4, 10 and never decreases; construction always comes to its end with
\* the exception of a failing stage caught, the level then being that of
\* the last completed stage (2 parse, 3 header, 4 decompress or defilter),
\* and 10 only when no stage raised and all of them ran.
C1_LevelsAdvance ==
    /\ []C1_FinalLevel
    /\ [][gen' = gen => (valid' >= valid /\ C1_Progress)]_vars

\* a defilter error after a first row was decoded: level 4 with one row
C1_Witness ==
    /\ pc = "done" /\ err.stage = "unfilter" /\ valid = 4
    /\ Len(pixels) >= 1

(***************************************************************************)
(* C2: the final level by class of input.                                  *)
(***************************************************************************)
StartsWithSignature(buf) == Len(buf) >= 8 /\ SubSeq(buf, 1, 8) = Signature

\* C2 (as stated): empty buffer -> 0; not the 8-byte signature -> 1; a
\* truncated chunk framing after the signature -> 2; a compressed payload
\* that inflate rejects -> 4 with no pixel.
C2_LevelByInput ==
    (pc = "done" /\ gen = 1) =>
        /\ content = <<>> => valid = 0
        /\ (content # <<>> /\ ~StartsWithSignature(content)) => valid = 1
        /\ (StartsWithSignature(content) /\ err.stage = "parse") => valid = 2
        /\ err.type = "zlib.error" => (valid = 4 /\ pixels = <<>>)

(***************************************************************************)
(* C3: round trip through getBlob.                                         *)
(***************************************************************************)
\* C3 (as stated): the blob of a decoder at level 10 decodes to level 10
\* and to the same pixels.
C3_RoundTrip ==
    (gen = 2 /\ pc = "done") => (valid = 10 /\ pixels = first.pixels)

StandardDepths == {1, 2, 4, 8, 16}

\* C3 (amended): for the bit depths 1, 2, 4, 8 and 16 the blob of a decoder
\* at level 10 decodes to level 10 and to the same pixels.
C3_RoundTripStandardDepth ==
    (gen = 2 /\ pc = "done" /\ colorDepth \in StandardDepths)
        => (valid = 10 /\ pixels = first.pixels)

\* two rows of an 8-bit image first read through the Paeth filter
C3_Witness ==
    /\ gen = 2 /\ pc = "done" /\ valid = 10 /\ colorDepth = 8
    /\ 4 \in first.filters_used /\ filters_used = {0}
    /\ Len(pixels) = 2 /\ pixels[2] # <<>>


(***************************************************************************)
(* C4: hasColor.                                                           *)
(***************************************************************************)
\* the palette entry a sample indexes (none without a palette)
PaletteEntry(cs, index) ==
    LET hits == SelectSeq(cs, LAMBDA c : c.name = PLTE)
    IN  IF hits = <<>> \/ 3 * index + 3 > Len(hits[1].content) THEN <<>>
        ELSE SubSeq(hits[1].content, 3 * index + 1, 3 * index + 3)

\* a pixel of the grid projected to RGB
ProjectRgb(pixel) ==
    CASE colorType = 2 -> pixel
      [] colorType = 6 -> SubSeq(pixel, 1, 3)
      [] colorType = 3 -> PaletteEntry(chunks, pixel[1])
      [] OTHER -> <<>>

SomePixelIs(target) ==
    \E r \in 1..Len(pixels) : \E k \in 1..Len(pixels[r]) :
        ProjectRgb(pixels[r][k]) = target

\* C4 (as stated): on an 8-bit RGB, RGBA or Indexed image hasColor(target)
\* is true exactly when some pixel of the grid, projected to RGB, is target.
C4_HasColorIffPixel ==
    (qresult # "none" /\ colorDepth = 8 /\ colorType \in {2, 3, 6})
        => ((qresult = "True") <=> SomePixelIs(qcolor))

(***************************************************************************)
(* C5: filter tags outside 0..4.                                           *)
(***************************************************************************)
\* C5: when the scanline read last carries a tag above 4, no row came out of
\* it: the construction is over with an IndexError caught in the defilter
\* stage, the level is 4, and pixels holds the y rows read before it.
C5_BadTagStops ==
    (line # <<>> /\ line[1] > 4) =>
        /\ pc = "done" /\ valid = 4
        /\ err = Caught("unfilter", "IndexError")
        /\ Len(pixels) = y /\ y < height
        /\ \A t \in filters_used : t > 4 => t = line[1]

\* the second scanline carries tag 5: one row is kept
C5_Witness ==
    /\ pc = "done" /\ line # <<>> /\ line[1] = 5
    /\ Len(pixels) = 1 /\ pixels[1] # <<>> /\ height = 2

(***************************************************************************)
(* C8: the bytes of row y.                                                 *)
(***************************************************************************)
ChannelCount(ct) ==
    CASE ct = 0 -> 1 [] ct = 2 -> 3 [] ct = 4 -> 2 [] ct = 6 -> 4 [] OTHER -> 0

\* pixelSizeBytes in eighths of a byte
PixelSizeEighths == IF colorType = 3 THEN 8 ELSE colorDepth * ChannelCount(colorType)

\* the n bytes of buf that start at position start, as far as buf goes
BytesAt(buf, start, n) ==
    [i \in 1..Min(n, Max(0, Len(buf) - start)) |-> buf[start + i]]

FloorLineSize == ((PixelSizeEighths * width) \div 8) + 1
RoundLineSize == ((PixelSizeEighths * width + 4) \div 8) + 1

\* C8 (as stated): row y is the lineSize bytes at y * lineSize, with
\* lineSize = floor(pixelSizeBytes * width) + 1.
C8_ReadsFloorLine ==
    [][(pc = "rows" /\ y < height)
          => line' = BytesAt(filtered, y * FloorLineSize, FloorLineSize)]_vars

\* C8 (amended): row y is the lineSize bytes at y * lineSize, with lineSize
\* = round(pixelSizeBytes * width) + 1, a half rounding up.
C8_ReadsRoundedLine ==
    [][(pc = "rows" /\ y < height)
          => line' = BytesAt(filtered, y * RoundLineSize, RoundLineSize)]_vars

\* second row of a 4-bit image one pixel wide: tag and one byte, read at 2
C8_Witness ==
    /\ colorDepth = 4 /\ colorType = 0 /\ width = 1
    /\ pc = "rows" /\ y = 2 /\ Len(line) = 2
    /\ line = BytesAt(filtered, 2, 2)


(***************************************************************************)
(* C9: the chunk loop.                                                     *)
(***************************************************************************)
RECURSIVE SpanOf(_, _)
\* the bytes the first k chunks of cs take: 12 + length each
SpanOf(cs, k) == IF k = 0 THEN 0 ELSE SpanOf(cs, k - 1) + 12 + cs[k].size

\* the length field at the cursor (only read when 8 bytes are left there)
LengthAt(buf, cursor) == U32(SubSeq(buf, cursor + 1, cursor + 4))

\* a read of length and type, or of the checksum, would exceed the buffer
ReadExceeds(buf, cursor) ==
    \/ cursor + 8 > Len(buf)
    \/ cursor + 8 + LengthAt(buf, cursor) + 4 > Len(buf)

C9_Cursor ==
    /\ \A k \in 1..Len(chunks) :
          /\ chunks[k].offset = 8 + SpanOf(chunks, k - 1)
          /\ ~ReadExceeds(content, chunks[k].offset)
          /\ chunks[k].size = LengthAt(content, chunks[k].offset)
          /\ k < Len(chunks) => chunks[k].name # IEND
    /\ pc = "parse" =>
          /\ offset = 8 + SpanOf(chunks, Len(chunks))
          /\ ~LastChunkIsIend
    /\ valid >= 3 => LastChunkIsIend
    /\ err.stage = "parse" =>
          /\ ~LastChunkIsIend
          /\ offset = 8 + SpanOf(chunks, Len(chunks))
          /\ ReadExceeds(content, offset)

\* C9: the cursor starts at 8 and moves by 12 + length per chunk; the loop
\* ends with the first IEND chunk, which is then the last chunk, or with an
\* error as soon as a read of length and type or of the checksum would
\* exceed the buffer; every iteration that does not end the loop moves
\* the cursor forward within the buffer, so the loop ends on every buffer.
C9_ParseTerminates ==
    /\ []C9_Cursor
    /\ [][pc = "parse" =>
            \/ pc' = "properties" /\ LastChunkIsIend'
            \/ pc' = "done" /\ err'.stage = "parse" /\ chunks' = chunks
            \/ /\ pc' = "parse" /\ Len(chunks') = Len(chunks) + 1
               /\ offset < offset' /\ offset' <= Len(content)]_vars

\* a chunk of length 0 was read, then a length field larger than the buffer
C9_Witness ==
    /\ pc = "done" /\ err.stage = "parse"
    /\ \E k \in 1..Len(chunks) : chunks[k].size = 0
    /\ offset + 8 <= Len(content)
    /\ LengthAt(content, offset) > Len(content)

(***************************************************************************)
(* C10: the grid of a decoder at level 10.                                 *)
(***************************************************************************)
\* samples per pixel of an 8-bit image
Samples(ct) == IF ct = 3 THEN 1 ELSE ChannelCount(ct)

\* C10 (as stated): an 8-bit image at level 10 has height rows of width
\* pixels, each with the samples of its color model, and its decompressed
\* buffer holds at least height * lineSize bytes.
C10_FullGrid ==
    (pc = "done" /\ valid = 10 /\ colorDepth = 8) =>
        /\ Len(pixels) = height
        /\ \A r \in 1..Len(pixels) :
              /\ Len(pixels[r]) = width
              /\ \A k \in 1..Len(pixels[r]) :
                    Len(pixels[r][k]) = Samples(colorType)
        /\ Len(filtered) >= height * (Samples(colorType) * width + 1)


(***************************************************************************)
(* Direct calls of _paeth and of _unfilter_line on an object that decoded  *)
(* nothing: the fields are those __init__ leaves.                          *)
(***************************************************************************)
Fresh ==
    /\ content = <<>> /\ valid = 0 /\ chunks = <<>>
    /\ height = 0
    /\ compressionMethod = 0 /\ filterMethod = 0 /\ interlaceMethod = 0
    /\ filters_used = {} /\ pixels = <<>> /\ zlevel = 0
    /\ offset = 0 /\ filtered = <<>> /\ y = 0 /\ prior = NoPrior
    /\ line = <<>> /\ err = NoErr
    /\ gen = 1 /\ first = NoFirst
    /\ qcolor = <<>> /\ qresult = "none"
    /\ fresult = <<>>

\* the byte values _paeth is called with: the low and the high end of 0..255
PaethBytes == (0..MaxByte) \cup ((255 - MaxByte)..255)

PaethInit ==
    /\ Fresh
    /\ pc = "paeth"
    /\ width = 0 /\ colorDepth = 0 /\ colorType = 0
    /\ fargs \in PaethBytes \X PaethBytes \X PaethBytes

\* a call self._paeth(a, b, c)
CallPaeth ==
    /\ pc = "paeth"
    /\ fresult' = << _paeth(fargs[1], fargs[2], fargs[3]) >>
    /\ pc' = "paeth_done"
    /\ UNCHANGED <<content, valid, chunks, hdr_vars, unf_vars, offset, err,
                   gen, first, qcolor, qresult, fargs>>

PaethNext == CallPaeth

PaethSpec == PaethInit /\ [][PaethNext]_vars

(***************************************************************************)
(* C7: the Paeth predictor.                                                *)
(***************************************************************************)
\* C7: with p = a + b - c, pa = |p - a|, pb = |p - b|, pc = |p - c|, the
\* predictor returns a when pa <= pb and pa <= pc, otherwise b when
\* pb <= pc, otherwise c; the result is one of a, b, c.
C7_PaethOrder ==
    pc = "paeth_done" =>
        LET a == fargs[1]
            b == fargs[2]
            c == fargs[3]
            r == fresult[1]
            da == Abs(b - c)            \* |p - a|
            db == Abs(a - c)            \* |p - b|
            dc == Abs(a + b - 2 * c)    \* |p - c|
        IN  /\ r \in {a, b, c}
            /\ (da <= db /\ da <= dc) => r = a
            /\ (~(da <= db /\ da <= dc) /\ db <= dc) => r = b
            /\ (~(da <= db /\ da <= dc) /\ ~(db <= dc)) => r = c
            /\ (a = b /\ b = c) => r = a
            /\ (da = db /\ db < dc) => r = a
            /\ (db = dc /\ dc < da) => r = b

\* pb = pc = 1 < pa = 2 with b # c: the tie goes to b
C7_Witness ==
    /\ pc = "paeth_done"
    /\ fargs = <<1, 4, 2>> /\ fresult = <<4>>


(***************************************************************************)
(* _unfilter_line applied row after row to forward-filtered rows.          *)
(***************************************************************************)
\* <<colorDepth, colorType>>: pixel sizes of half a byte, 2, 3 and 4 bytes
FilterKinds == { <<4, 0>>, <<8, 4>>, <<8, 2>>, <<8, 6>> }
FilterTags == 0..4
FilterBytes == {0, 255}

\* the raw rows of n bytes
RawRows(n) == [1..n -> FilterBytes]

\* the predictor of the format for a byte, from the raw bytes to its left,
\* above it and above to its left
Predictor(t, left, up, upleft) ==
    CASE t = 0 -> 0
      [] t = 1 -> left
      [] t = 2 -> up
      [] t = 3 -> (left + up) \div 2
      [] t = 4 ->
            LET est == left + up - upleft
            IN  IF Abs(est - left) <= Abs(est - up)
                   /\ Abs(est - left) <= Abs(est - upleft) THEN left
                ELSE IF Abs(est - up) <= Abs(est - upleft) THEN up
                ELSE upleft

\* the forward filter of the format: each byte minus its predictor, modulo
\* 256; bytes left of the first pixel are zero
ForwardFilter(t, raw, above, bpp) ==
    [i \in 1..Len(raw) |->
        LET left == IF i > bpp THEN raw[i - bpp] ELSE 0
            upleft == IF i > bpp THEN above[i - bpp] ELSE 0
        IN  (raw[i] + 256 - Predictor(t, left, above[i], upleft)) % 256]

\* a row of bytes as a list of pixels of bpp bytes
PixelsOf(raw, bpp) ==
    [i \in 1..(Len(raw) \div bpp) |-> SubSeq(raw, (i - 1) * bpp + 1, i * bpp)]

FilterInit ==
    /\ Fresh
    /\ pc = "filter"
    /\ \E k \in FilterKinds : colorDepth = k[1] /\ colorType = k[2]
    /\ width \in 0..(2 * MaxRowBytes)
    /\ line_size(_pixel_size8(colorDepth, colorType), width) - 1 <= MaxRowBytes
    /\ \E t \in FilterTags : fargs = <<t>>

\* self._unfilter_line(line, prior) for the next scanline of an image whose
\* scanlines all carry the tag fargs[1], the scanline being that tag and the
\* forward-filtered bytes of a raw row; the result is the prior of the call
\* that follows (lines 241 and 243). fargs keeps the tag, the raw row above
\* and the raw row.
FilterRow ==
    /\ pc = "filter"
    /\ \E raw \in RawRows(line_size(_pixel_size8(colorDepth, colorType), width) - 1) :
          LET ps8 == _pixel_size8(colorDepth, colorType)
              t == fargs[1]
              above == IF prior = NoPrior THEN [i \in 1..Len(raw) |-> 0]
                       ELSE fargs[3]
          IN  /\ line' = <<t>> \o ForwardFilter(t, raw, above, filter_ps(ps8))
              /\ filters_used' = filters_used \cup {t}
              /\ fresult' = _unfilter_line(line', prior, ps8)
              /\ prior' = fresult'
              /\ fargs' = <<t, above, raw>>
    /\ UNCHANGED <<content, valid, chunks, hdr_vars, filtered, y, pixels, zlevel,
                   pc, offset, err, gen, first, qcolor, qresult>>

FilterNext == FilterRow

FilterSpec == FilterInit /\ [][FilterNext]_vars

(***************************************************************************)
(* C6: unfiltering inverts the forward filter.                             *)
(***************************************************************************)
\* C6: for every tag 0..4, pixel size, row length and row above (none for
\* the first row), _unfilter_line applied to the tag followed by the
\* forward-filtered bytes of a raw row returns that raw row, pixel by
\* pixel, on every row of an image.
C6_UnfilterInvertsFilter ==
    (pc = "filter" /\ Len(fargs) = 3) =>
        /\ fresult # Raised
        /\ fresult = PixelsOf(fargs[3], filter_ps(_pixel_size8(colorDepth, colorType)))

\* a Paeth row of two pixels below a row that is not zero, whose filtered
\* bytes differ from the raw ones
C6_Witness ==
    /\ pc = "filter" /\ Len(fargs) = 3
    /\ line[1] = 4 /\ Len(fresult) = 2 /\ Len(fresult[1]) = 2
    /\ \E i \in 1..Len(fargs[2]) : fargs[2][i] # 0
    /\ Tail(line) # fargs[3]

=============================================================================
